---- MODULE Spec2Model ----
(***************************************************************************)
(* TreeScheduler of task/backend/scheduler/treescheduler.go.              *)
(*                                                                         *)
(* Time is counted in abstract seconds.  The two btrees are modelled by    *)
(* the contract of github.com/google/btree (an ordered set in which two    *)
(* items are the same when neither is Less than the other), the cron       *)
(* library by "the least instant after t, or an error past the horizon".   *)
(* The goroutines are the dispatch loop, one waiter per run, one client    *)
(* calling Schedule/Release and one client calling Stop.  The scheduler is *)
(* built with WithMaxRunsOutsanding(c) for a small c, in place of the      *)
(* default capacity of 1 << 16.                                            *)
(***************************************************************************)
EXTENDS Integers, Sequences, FiniteSets, TLC

\* ---- bounds ------------------------------------------------------------
\* task ids 1..MaxID
MaxID == 2
\* run ids 1..MaxRun handed out by the executor
MaxRun == 1
\* capacities 0..MaxCap given to WithMaxRunsOutsanding
MaxCap == 1
\* calls of Schedule and Release the client makes
MaxOps == 3
\* since arguments 0..MaxSince
MaxSince == 1
\* offset arguments 0..MaxOffset
MaxOffset == 1
\* last instant a cron schedule yields (the year 2100 of the cron library)
Horizon == 3
\* limit arguments 0..MaxLimit of Runs
MaxLimit == 2
\* maxWaitTime in the model's seconds.  Construction time plus maxWaitTime
\* lies after every instant a schedule yields, as 10^6 hours from today lie
\* after the year 2100.
maxWaitTime == Horizon + MaxOffset + 1

IDs == 1 .. MaxID
RunIDs == 1 .. MaxRun
Caps == 0 .. MaxCap
Sinces == 0 .. MaxSince
Offsets == 0 .. MaxOffset
Limits == 0 .. MaxLimit

\* ---- the cron collaborator ---------------------------------------------
\* Cron strings: "1" fires every second, "2" every second second; "bad" does
\* not parse.
CronStrings == {"1", "2", "bad"}

ParseUTC(str) ==
    CASE str = "1" -> [err |-> FALSE, period |-> 1]
      [] str = "2" -> [err |-> FALSE, period |-> 2]
      [] OTHER     -> [err |-> TRUE, period |-> 0]

\* Unix() of the zero time.Time that Next returns beside an error: an
\* instant before every other instant.
ZeroUnix == 0 - 1

\* cron.Parsed.Next: the least instant strictly after t on the schedule, or
\* the zero time and an error when there is none up to the horizon.
CronNext(period, t) ==
    LET n == ((t \div period) + 1) * period
    IN  IF n <= Horizon THEN [err |-> FALSE, t |-> n]
                        ELSE [err |-> TRUE, t |-> ZeroUnix]

\* ---- items and the btree contract -------------------------------------
NoItem == [next |-> 0, nonce |-> 0, id |-> 0, cron |-> 0]

\* item.Less with the tie on the id decided the wrong way round.
LessIdReversed(it, it2) ==
    \/ it.next < it2.next
    \/ /\ it.next = it2.next
       /\ \/ it.nonce < it2.nonce
          \/ it.nonce = it2.nonce /\ it.id > it2.id

\* item.Less
Less(it, it2) ==
    \/ it.next < it2.next
    \/ /\ it.next = it2.next
       /\ \/ it.nonce < it2.nonce
          \/ it.nonce = it2.nonce /\ it.id < it2.id

\* runningItem.Less
RunningLess(it, it2) ==
    \/ it.taskID < it2.taskID
    \/ it.taskID = it2.taskID /\ it.runID < it2.runID

\* btree: two items are the same item when neither is Less than the other.
SameItem(a, b) == ~Less(a, b) /\ ~Less(b, a)

ReplaceOrInsert(tree, it) == {e \in tree : ~SameItem(e, it)} \cup {it}

Delete(tree, key) == {e \in tree : ~SameItem(e, key)}

\* btree.DeleteMin returns the least item (nil on an empty tree).
MinItem(tree) == CHOOSE e \in tree : \A o \in tree : o = e \/ Less(e, o)

\* ---- state --------------------------------------------------------------
VARIABLES
    scheduled,   \* s.scheduled: set of items
    running,     \* s.running: set of [taskID, runID]
    nextTime,    \* s.nextTime: set of <<id, next>> pairs of the map
    when,        \* s.when
    timer,       \* s.timer: [active, left], left the time until it is due
    timerC,      \* s.timer.C: number of ticks buffered (0 or 1)
    time,        \* s.time: "nil" or "stdTime"
    done,        \* s.done: "nil" (never made)
    sema,        \* s.sema: [cap, len, closed]
    wg,          \* s.wg counter
    mu,          \* the RWMutex: "free" or "caller"
    loopPc,      \* position of the dispatch goroutine
    loopIt,      \* it of the dispatch goroutine
    loopProm,    \* prom of the dispatch goroutine: 0 is nil, else its run id
    proms,       \* handles made by the executor: [taskID, runID, st]
    waiters,     \* waiter goroutines: [taskID, runID, pc]
    caller,      \* the client inside Schedule or Release
    stopPc,      \* position of the client calling Stop
    semaCap,     \* semaCap of Stop
    drained,     \* i of Stop's drain loop
    now,         \* time since construction, as far as the code can tell: up to s.when
    ops,         \* calls made by the client
    calls,       \* executor invocations so far: sequence of [id, at]
    errs,        \* onErr invocations so far: set of [taskID, runID, at]
    cancelled,   \* runs whose cancel function has been invoked
    released,    \* ids whose Release returned and that were not scheduled since
    raced,       \* the dispatch loop touched s.scheduled inside a critical section
    lastCall     \* the client's latest call that returned with no dispatch since

vars == <<scheduled, running, nextTime, when, timer, timerC, time, done, sema,
          wg, mu, loopPc, loopIt, loopProm, proms, waiters, caller, stopPc,
          semaCap, drained, now, ops, calls, errs, cancelled, released,
          raced, lastCall>>

Idle == [op |-> "idle", it |-> NoItem, nt |-> 0]

\* No call has returned yet.
NoCall == [op |-> "none", it |-> NoItem, nt |-> 0, fresh |-> FALSE,
           again |-> FALSE]

\* Schedule returned an error: nothing else is recorded of it.
FailedCall == [NoCall EXCEPT !.op = "error"]

\* The process is gone after a panic in any goroutine.
Alive == loopPc # "panic"

\* The dispatch goroutine holds an item it took out of the index and has not
\* put back yet.
InDispatch == loopPc \in {"exec", "advance"}

\* map lookup: nextTime, ok := s.nextTime[id]
HasNextTime(id) == \E p \in nextTime : p[1] = id
NextTimeOf(id) == IF HasNextTime(id) THEN (CHOOSE p \in nextTime : p[1] = id)[2] ELSE 0

\* NewScheduler, with WithMaxRunsOutsanding(c) and with or without WithTime.
Init ==
    /\ scheduled = {}
    /\ running = {}
    /\ nextTime = {}
    /\ now = 0
    /\ when = maxWaitTime
    /\ timer = [active |-> TRUE, left |-> maxWaitTime]
    /\ timerC = 0
    /\ time \in {"nil", "stdTime"}
    /\ done = "nil"
    /\ \E c \in Caps : sema = [cap |-> c, len |-> 0, closed |-> FALSE]
    /\ wg = 0
    /\ mu = "free"
    /\ loopPc = "select"
    /\ loopIt = NoItem
    /\ loopProm = 0
    /\ proms = {}
    /\ waiters = {}
    /\ caller = Idle
    /\ stopPc = "idle"
    /\ semaCap = 0
    /\ drained = 0
    /\ ops = 0
    /\ calls = <<>>
    /\ errs = {}
    /\ cancelled = {}
    /\ released = {}
    /\ raced = FALSE
    /\ lastCall = NoCall

\* ---- the clock and the runtime timer -----------------------------------
\* Time passes until the armed timer is due.  The code reads the clock in
\* time.Until(s.when) alone, and s.when is never later than maxWaitTime after
\* construction: instants from there on are alike and the clock is kept at
\* the first of them.
Tick ==
    /\ Alive
    /\ timer.active
    /\ timer.left > 0
    /\ timer' = [timer EXCEPT !.left = 0]
    /\ now' = IF now + timer.left < maxWaitTime THEN now + timer.left
                                                ELSE maxWaitTime
    /\ UNCHANGED <<scheduled, running, nextTime, when, timerC, time, done,
                   sema, wg, mu, loopPc, loopIt, loopProm, proms, waiters,
                   caller, stopPc, semaCap, drained, ops, calls, errs,
                   cancelled, released, raced, lastCall>>

\* The runtime sends on timer.C once an active timer's duration has passed.
TimerExpire ==
    /\ Alive
    /\ timer.active
    /\ timer.left = 0
    /\ timer' = [timer EXCEPT !.active = FALSE]
    /\ timerC' = 1
    /\ UNCHANGED <<scheduled, running, nextTime, when, time, done, sema, wg,
                   mu, loopPc, loopIt, loopProm, proms, waiters, caller,
                   stopPc, semaCap, drained, now, ops, calls, errs, cancelled,
                   released, raced, lastCall>>

\* timer.Reset(d)
TimerReset(d) == [active |-> TRUE, left |-> d]

\* time.Until(t)
Until(t) == IF t > now THEN t - now ELSE 0

\* ---- Schedule ------------------------------------------------------------
\* An item that carries the number of the call as its nonce.
NewItemCounted(id, crSch, next) ==
    [next |-> next, nonce |-> ops, id |-> id, cron |-> crSch.period]

\* Lines 242-246: it := item{cron: crSch, next: ..., id: id}; the nonce is 0.
NewItem(id, crSch, next) ==
    [next |-> next, nonce |-> 0, id |-> id, cron |-> crSch.period]

\* Schedule that registers the task before it looks at the cron string.
ScheduleCallRegisters(id, cronString, offset, since) ==
    LET crSch == ParseUTC(cronString)
        nx == CronNext(crSch.period, since)
    IN  /\ Alive
        /\ caller.op = "idle"
        /\ ops < MaxOps
        /\ ops' = ops + 1
        /\ IF crSch.err
           THEN /\ lastCall' = FailedCall
                /\ scheduled' = ReplaceOrInsert(scheduled, NewItem(id, crSch, offset))
                /\ UNCHANGED <<caller, mu>>
           ELSE /\ mu = "free"
                /\ mu' = "caller"
                /\ caller' = [op |-> "Schedule",
                              it |-> NewItem(id, crSch, nx.t + offset),
                              nt |-> nx.t]
                /\ UNCHANGED <<scheduled, lastCall>>
        /\ UNCHANGED <<running, nextTime, when, timer, timerC, time,
                       done, sema, wg, loopPc, loopIt, loopProm, proms, waiters,
                       stopPc, semaCap, drained, now, calls, errs, cancelled,
                       released, raced>>

\* Lines 234-247: parse, first instant, build the item, take the lock.  A
\* parse error or a schedule without an instant returns the error.
ScheduleCall(id, cronString, offset, since) ==
    LET crSch == ParseUTC(cronString)
        nx == CronNext(crSch.period, since)
    IN  /\ Alive
        /\ caller.op = "idle"
        /\ ops < MaxOps
        /\ ops' = ops + 1
        /\ IF crSch.err
           THEN /\ lastCall' = FailedCall
                /\ UNCHANGED <<caller, mu>>
           ELSE IF nx.err
           THEN /\ lastCall' = FailedCall
                /\ UNCHANGED <<caller, mu>>
           ELSE /\ mu = "free"
                /\ mu' = "caller"
                /\ UNCHANGED lastCall
                /\ caller' = [op |-> "Schedule",
                              it |-> NewItem(id, crSch, nx.t + offset),
                              nt |-> nx.t]
        /\ UNCHANGED <<scheduled, running, nextTime, when, timer, timerC, time,
                       done, sema, wg, loopPc, loopIt, loopProm, proms, waiters,
                       stopPc, semaCap, drained, now, calls, errs, cancelled,
                       released, raced>>

\* The call under way has the arguments of the client's latest call of
\* Schedule: the same id, cron schedule, first instant and offset.
SameArguments ==
    /\ lastCall.op = "Schedule"
    /\ caller.op = "Schedule"
    /\ lastCall.it.id = caller.it.id
    /\ lastCall.it.cron = caller.it.cron
    /\ lastCall.it.next = caller.it.next
    /\ lastCall.nt = caller.nt

\* Lines 249-271 and the deferred Unlock.  An id the map does not know is
\* inserted and the call returns; a known id re-arms the timer when s.when is
\* before nt, blocking on timer.C when the timer had already fired and its
\* channel is empty, then deletes the old item and inserts the new one.
ScheduleBody ==
    LET it == caller.it
        ok == HasNextTime(it.id)
        rearm == when < caller.nt
        stopped == timer.active
        blocks == ok /\ rearm /\ ~stopped /\ timerC = 0
        when2 == IF ok /\ rearm THEN caller.nt ELSE when
    IN  /\ Alive
        /\ caller.op = "Schedule"
        /\ ~blocks
        /\ scheduled' = IF ~ok
                        THEN ReplaceOrInsert(scheduled, it)
                        ELSE ReplaceOrInsert(
                                 Delete(scheduled,
                                        [next |-> NextTimeOf(it.id), nonce |-> 0,
                                         id |-> it.id, cron |-> 0]),
                                 it)
        /\ when' = when2
        /\ timer' = IF ok /\ rearm THEN TimerReset(Until(when2)) ELSE timer
        /\ timerC' = IF ok /\ rearm /\ ~stopped THEN 0 ELSE timerC
        /\ mu' = "free"
        /\ caller' = Idle
        /\ released' = released \ {it.id}
        /\ lastCall' = IF InDispatch
                        THEN NoCall
                        ELSE [op |-> "Schedule", it |-> it, nt |-> caller.nt,
                              fresh |-> (~ok /\ \A e \in scheduled : e.id # it.id),
                              again |-> SameArguments]
        /\ UNCHANGED <<running, nextTime, time, done, sema, wg, loopPc, loopIt,
                       loopProm, proms, waiters, stopPc, semaCap, drained, now,
                       ops, calls, errs, cancelled, raced>>

\* ---- Release -------------------------------------------------------------
\* Line 215: take the lock.
ReleaseCall(taskID) ==
    /\ Alive
    /\ caller.op = "idle"
    /\ ops < MaxOps
    /\ ops' = ops + 1
    /\ mu = "free"
    /\ mu' = "caller"
    /\ caller' = [op |-> "Release", it |-> [NoItem EXCEPT !.id = taskID], nt |-> 0]
    /\ UNCHANGED <<scheduled, running, nextTime, when, timer, timerC, time,
                   done, sema, wg, loopPc, loopIt, loopProm, proms, waiters,
                   stopPc, semaCap, drained, now, calls, errs, cancelled,
                   released, raced, lastCall>>

\* clearTask under AscendGreaterOrEqual(runningItem{taskID}): for every item
\* of the task it deletes runningItem{taskID: taskID}, the item with run id 0.
ClearTask(tree, taskID) ==
    IF \E r \in tree : r.taskID = taskID
    THEN {r \in tree : ~(r.taskID = taskID /\ r.runID = 0)}
    ELSE tree

\* Lines 217-229 and the deferred Unlock.
ReleaseBody ==
    LET taskID == caller.it.id
        ok == HasNextTime(taskID)
    IN  /\ Alive
        /\ caller.op = "Release"
        /\ scheduled' = IF ok
                        THEN Delete(scheduled,
                                    [next |-> NextTimeOf(taskID), nonce |-> 0,
                                     id |-> taskID, cron |-> 0])
                        ELSE scheduled
        /\ running' = IF ok THEN ClearTask(running, taskID) ELSE running
        /\ mu' = "free"
        /\ caller' = Idle
        /\ released' = IF InDispatch /\ loopIt.id = taskID
                        THEN released
                        ELSE released \cup {taskID}
        /\ lastCall' = IF InDispatch
                        THEN NoCall
                        ELSE [NoCall EXCEPT !.op = "Release", !.it = caller.it]
        /\ UNCHANGED <<nextTime, when, timer, timerC, time, done, sema, wg,
                       loopPc, loopIt, loopProm, proms, waiters, stopPc, semaCap,
                       drained, now, ops, calls, errs, cancelled,
                   raced>>

\* ---- the dispatch goroutine ---------------------------------------------
\* An access to s.scheduled outside the lock while the client is inside its
\* critical section is a data race: the write may take effect or be lost.
RaceOutcomes == IF mu = "caller" THEN {"applied", "lost"} ELSE {"applied"}

\* The branches of the select at line 123 that can proceed.  A receive from
\* the nil channel s.done never can.
ReadyBranches ==
    (IF done # "nil" /\ stopPc = "send" /\ mu = "free" THEN {"done"} ELSE {})
    \cup (IF timerC = 1 THEN {"timer"} ELSE {})

\* Lines 123-143.  done: stop the timer under the lock, close the limiter,
\* return.  timer.C: DeleteMin without the lock; on an empty index go on to
\* reset the timer.
LoopSelect ==
    /\ Alive
    /\ loopPc = "select"
    /\ \E br \in ReadyBranches, outcome \in RaceOutcomes :
         IF br = "done"
         THEN /\ timer' = [timer EXCEPT !.active = FALSE]
              /\ sema' = [sema EXCEPT !.closed = TRUE]
              /\ loopPc' = "exited"
              /\ stopPc' = "drain"
              /\ UNCHANGED <<scheduled, timerC, loopIt, raced, lastCall>>
         ELSE /\ timerC' = 0
              /\ raced' = (raced \/ mu = "caller")
              /\ IF scheduled = {}
                 THEN /\ loopPc' = "reset"
                      /\ UNCHANGED <<scheduled, loopIt, lastCall>>
                 ELSE /\ loopIt' = MinItem(scheduled)
                      /\ lastCall' = NoCall
                      /\ scheduled' = IF outcome = "lost"
                                      THEN scheduled
                                      ELSE scheduled \ {MinItem(scheduled)}
                      /\ loopPc' = "exec"
              /\ UNCHANGED <<timer, sema, stopPc>>
    /\ UNCHANGED <<running, nextTime, when, time, done, wg, mu, loopProm, proms,
                   waiters, caller, semaCap, drained, now, ops, calls, errs,
                   cancelled, released>>

\* Lines 133-136: s.timer.Reset(maxWaitTime) under the lock, continue.
LoopReset ==
    /\ Alive
    /\ loopPc = "reset"
    /\ mu = "free"
    /\ timer' = TimerReset(maxWaitTime)
    /\ loopPc' = "select"
    /\ UNCHANGED <<scheduled, running, nextTime, when, timerC, time, done,
                   sema, wg, mu, loopIt, loopProm, proms, waiters, caller,
                   stopPc, semaCap, drained, now, ops, calls, errs, cancelled,
                   released, raced, lastCall>>

\* Line 145 and lines 181-183: the executor is called with the item's id and
\* instant.  It returns a handle, a nil handle, or an error; the error goes to
\* onErr with run id 0 and the loop goes back to the select.
LoopExec ==
    /\ Alive
    /\ loopPc = "exec"
    /\ calls' = Append(calls, [id |-> loopIt.id, at |-> loopIt.next])
    /\ \E result \in {"handle", "nil", "err"}, r \in RunIDs :
         CASE result = "handle" ->
                /\ proms' = proms \cup {[taskID |-> loopIt.id, runID |-> r,
                                         st |-> "pending"]}
                /\ loopProm' = r
                /\ loopPc' = "advance"
                /\ UNCHANGED <<errs, loopIt>>
           [] result = "nil" ->
                /\ loopProm' = 0
                /\ loopPc' = "advance"
                /\ UNCHANGED <<errs, loopIt, proms>>
           [] OTHER ->
                /\ errs' = errs \cup {[taskID |-> loopIt.id, runID |-> 0,
                                       at |-> loopIt.next]}
                /\ loopIt' = NoItem
                /\ loopPc' = "select"
                /\ UNCHANGED <<loopProm, proms>>
    /\ UNCHANGED <<scheduled, running, nextTime, when, timer, timerC, time,
                   done, sema, wg, mu, waiters, caller, stopPc, semaCap,
                   drained, now, ops, cancelled, released, raced, lastCall>>

\* Lines 146-156.  s.time.Unix on the nil s.time panics, and so does
\* prom.ID() on a nil handle when the schedule has no next instant.  Else the
\* item gets the next instant (the zero time's on an error, with the nonce
\* bumped and onErr called) and goes back into the index without the lock.
LoopAdvance ==
    LET nx == CronNext(loopIt.cron, loopIt.next)
        it == [loopIt EXCEPT !.next = nx.t,
                             !.nonce = IF nx.err THEN @ + 1 ELSE @]
    IN  /\ Alive
        /\ loopPc = "advance"
        /\ IF time = "nil" \/ (nx.err /\ loopProm = 0)
           THEN /\ loopPc' = "panic"
                /\ UNCHANGED <<scheduled, loopIt, errs, raced>>
           ELSE /\ loopIt' = it
                /\ errs' = IF nx.err
                           THEN errs \cup {[taskID |-> it.id, runID |-> loopProm,
                                            at |-> it.next]}
                           ELSE errs
                /\ raced' = (raced \/ mu = "caller")
                /\ \E outcome \in RaceOutcomes :
                     scheduled' = IF outcome = "lost"
                                  THEN scheduled
                                  ELSE ReplaceOrInsert(scheduled, it)
                /\ loopPc' = IF loopProm = 0 THEN "select" ELSE "register"
        /\ UNCHANGED <<running, nextTime, when, timer, timerC, time, done,
                       sema, wg, mu, loopProm, proms, waiters, caller, stopPc,
                       semaCap, drained, now, ops, calls, cancelled, released,
                       lastCall>>

\* s.running.ReplaceOrInsert
RunningInsert(tree, r) ==
    {e \in tree : RunningLess(e, r) \/ RunningLess(r, e)} \cup {r}

\* s.running.Delete
RunningDelete(tree, r) ==
    {e \in tree : RunningLess(e, r) \/ RunningLess(r, e)}

\* Lines 157-161: the Running Entry goes in under the lock, then wg.Add(1).
LoopRegister ==
    /\ Alive
    /\ loopPc = "register"
    /\ mu = "free"
    /\ running' = RunningInsert(running, [taskID |-> loopIt.id, runID |-> loopProm])
    /\ wg' = wg + 1
    /\ loopPc' = "acquire"
    /\ UNCHANGED <<scheduled, nextTime, when, timer, timerC, time, done, sema,
                   mu, loopIt, loopProm, proms, waiters, caller, stopPc,
                   semaCap, drained, now, ops, calls, errs, cancelled,
                   released, raced, lastCall>>

\* The send on s.sema taken to go through whether or not the channel has room.
LoopAcquireUnbounded ==
    /\ Alive
    /\ loopPc = "acquire"
    /\ ~sema.closed
    /\ sema' = [sema EXCEPT !.len = @ + 1]
    /\ waiters' = waiters \cup {[taskID |-> loopIt.id, runID |-> loopProm,
                                 at |-> loopIt.next, pc |-> "await"]}
    /\ loopPc' = "select"
    /\ UNCHANGED <<scheduled, running, nextTime, when, timer, timerC, time,
                   done, wg, mu, loopIt, loopProm, proms, caller, stopPc,
                   semaCap, drained, now, ops, calls, errs, cancelled,
                   released, raced, lastCall>>

\* Lines 163-164: the send on s.sema goes through while the channel has room;
\* then the waiter goroutine starts.
LoopAcquire ==
    /\ Alive
    /\ loopPc = "acquire"
    /\ ~sema.closed
    /\ sema.len < sema.cap
    /\ sema' = [sema EXCEPT !.len = @ + 1]
    /\ waiters' = waiters \cup {[taskID |-> loopIt.id, runID |-> loopProm,
                                 at |-> loopIt.next, pc |-> "await"]}
    /\ loopPc' = "select"
    /\ UNCHANGED <<scheduled, running, nextTime, when, timer, timerC, time,
                   done, wg, mu, loopIt, loopProm, proms, caller, stopPc,
                   semaCap, drained, now, ops, calls, errs, cancelled,
                   released, raced, lastCall>>

\* ---- handles and waiters --------------------------------------------------
\* The executor's run ends: prom.Done() is closed, prom.Error() is nil or not.
PromiseComplete ==
    /\ Alive
    /\ \E p \in proms, st \in {"ok", "err"} :
         /\ p.st = "pending"
         /\ proms' = (proms \ {p}) \cup {[p EXCEPT !.st = st]}
    /\ UNCHANGED <<scheduled, running, nextTime, when, timer, timerC, time,
                   done, sema, wg, mu, loopPc, loopIt, loopProm, waiters,
                   caller, stopPc, semaCap, drained, now, ops, calls, errs,
                   cancelled, released, raced, lastCall>>

PromState(w) ==
    IF \E p \in proms : p.taskID = w.taskID /\ p.runID = w.runID
    THEN (CHOOSE p \in proms : p.taskID = w.taskID /\ p.runID = w.runID).st
    ELSE "pending"

\* Lines 164-180.  "await": after <-prom.Done() an error goes to onErr and the
\* waiter returns, leaving the Running Entry; without an error the entry is
\* deleted under the lock.  The deferred function then calls wg.Done() and
\* receives from s.sema ("recv"), which blocks on an empty open channel.
Waiter ==
    /\ Alive
    /\ \E w \in waiters :
         LET st == PromState(w)
             gone == waiters \ {w}
             parked == gone \cup {[w EXCEPT !.pc = "recv"]}
             canRecv == sema.len > 0 \/ sema.closed
             sema2 == IF sema.len > 0 THEN [sema EXCEPT !.len = @ - 1] ELSE sema
         IN  IF w.pc = "await"
             THEN /\ st # "pending"
                  /\ st = "ok" => mu = "free"
                  /\ errs' = IF st = "err"
                             THEN errs \cup {[taskID |-> w.taskID,
                                              runID |-> w.runID, at |-> w.at]}
                             ELSE errs
                  /\ running' = IF st = "err"
                                THEN running
                                ELSE RunningDelete(running,
                                         [taskID |-> w.taskID, runID |-> w.runID])
                  /\ wg' = wg - 1
                  /\ sema' = sema2
                  /\ waiters' = IF canRecv THEN gone ELSE parked
             ELSE /\ canRecv
                  /\ sema' = sema2
                  /\ waiters' = gone
                  /\ UNCHANGED <<errs, running, wg>>
    /\ UNCHANGED <<scheduled, nextTime, when, timer, timerC, time, done, mu,
                   loopPc, loopIt, loopProm, proms, caller, stopPc, semaCap,
                   drained, now, ops, calls, cancelled, released, raced,
                   lastCall>>

\* ---- Stop ------------------------------------------------------------------
\* Lines 191-200.  "idle": read cap(s.sema) under the read lock and go on to
\* the send on s.done, which the dispatch loop's select completes; a send on
\* the nil channel never completes.  "drain": receive from s.sema, semaCap+1
\* times.  "wait": s.wg.Wait().
Stop ==
    /\ Alive
    /\ CASE stopPc = "idle" ->
              /\ mu = "free"
              /\ semaCap' = sema.cap
              /\ stopPc' = "send"
              /\ UNCHANGED <<sema, drained>>
         [] stopPc = "drain" ->
              /\ sema.len > 0 \/ sema.closed
              /\ sema' = IF sema.len > 0 THEN [sema EXCEPT !.len = @ - 1] ELSE sema
              /\ drained' = drained + 1
              /\ stopPc' = IF drained + 1 > semaCap THEN "wait" ELSE "drain"
              /\ UNCHANGED semaCap
         [] stopPc = "wait" ->
              /\ wg = 0
              /\ stopPc' = "returned"
              /\ UNCHANGED <<sema, semaCap, drained>>
         [] OTHER -> FALSE
    /\ UNCHANGED <<scheduled, running, nextTime, when, timer, timerC, time,
                   done, wg, mu, loopPc, loopIt, loopProm, proms, waiters,
                   caller, now, ops, calls, errs, cancelled, released, raced,
                   lastCall>>

\* ---- the system ------------------------------------------------------------
Schedule ==
    \E id \in IDs, cronString \in CronStrings, offset \in Offsets, since \in Sinces :
        ScheduleCall(id, cronString, offset, since)

Release == \E taskID \in IDs : ReleaseCall(taskID)

Next ==
    \/ Tick
    \/ TimerExpire
    \/ Schedule
    \/ ScheduleBody
    \/ Release
    \/ ReleaseBody
    \/ LoopSelect
    \/ LoopReset
    \/ LoopExec
    \/ LoopAdvance
    \/ LoopRegister
    \/ LoopAcquire
    \/ PromiseComplete
    \/ Waiter
    \/ Stop

Spec == Init /\ [][Next]_vars

\* Time passes, and every goroutine that can take a step eventually takes
\* one; the clients are under no obligation to call.
Fairness ==
    /\ WF_vars(Tick)
    /\ WF_vars(TimerExpire)
    /\ WF_vars(ScheduleBody)
    /\ WF_vars(ReleaseBody)
    /\ WF_vars(LoopSelect)
    /\ WF_vars(LoopReset)
    /\ WF_vars(LoopExec)
    /\ WF_vars(LoopAdvance)
    /\ WF_vars(LoopRegister)
    /\ WF_vars(LoopAcquire)
    /\ WF_vars(Waiter)
    /\ WF_vars(Stop)

FairSpec == Spec /\ Fairness

TypeOK ==
    /\ timerC \in {0, 1}
    /\ sema.len >= 0
    /\ wg >= 0
    /\ mu \in {"free", "caller"}

\* ---- properties -------------------------------------------------------------
EntriesIn(tree, id) == {e \in tree : e.id = id}

EntriesOf(id) == EntriesIn(scheduled, id)

RunsIn(tree, id) == {r \in tree : r.taskID = id}

RunsOf(id) == RunsIn(running, id)

\* The client's call of Schedule, or of Release, returns in this step.
ScheduleReturns == caller.op = "Schedule" /\ caller'.op = "idle"

ReleaseReturns == caller.op = "Release" /\ caller'.op = "idle"

\* C1: whenever no call and no dispatch is under way, a taskID is a key of
\* nextTime if and only if exactly one Scheduled Entry has that taskID, and
\* the nextTime value is that entry's next-fire second.
SideIndexAgrees ==
    (mu = "free" /\ ~InDispatch) =>
        \A id \in IDs :
            /\ HasNextTime(id) <=> Cardinality(EntriesOf(id)) = 1
            /\ HasNextTime(id) => \A e \in EntriesOf(id) : e.next = NextTimeOf(id)

\* C2: the Scheduled Index never holds two entries with the same taskID.
OneEntryPerTask ==
    \A id \in IDs : Cardinality(EntriesOf(id)) <= 1

\* C3: the number of Running Entries is at most the capacity of the limiter.
RunningWithinCapacity ==
    Cardinality(running) <= sema.cap

\* C4: when Release(id) returns there is no Scheduled Entry for id, and while
\* id stays released (not scheduled again, no dispatch of id under way when
\* Release returned) the dispatch loop takes no item of id out of the index
\* to hand it to the executor.
ReleasePreventsDispatch ==
    [][/\ ReleaseReturns => EntriesIn(scheduled', caller.it.id) = {}
       /\ (loopPc = "select" /\ loopPc' = "exec") => loopIt'.id \notin released
      ]_vars

\* C5: when Release(id) returns, the cancel function of every Running Entry
\* of id has been invoked, none of them is left in the Running Registry, and
\* the Running Entries of the other tasks are the ones there were.
ReleaseCancelsRuns ==
    [][ReleaseReturns =>
          LET id == caller.it.id
          IN  /\ \A r \in RunsOf(id) : r \in cancelled'
              /\ RunsIn(running', id) = {}
              /\ \A other \in IDs \ {id} : RunsIn(running', other) = RunsOf(other)
      ]_vars

FreshStopReturns ==
    (stopPc = "send" /\ ops = 0 /\ scheduled = {} /\ running = {})
        ~> (stopPc = "returned" \/ ops > 0)

\* C8: whenever the mutex is free and no dispatch is under way, s.when is the
\* next-fire instant of the least Scheduled Entry, or a far-future sentinel
\* (an instant maxWaitTime or more after construction) on an empty index.
WhenIsHead ==
    (mu = "free" /\ ~InDispatch) =>
        IF scheduled = {}
        THEN when >= maxWaitTime
        ELSE when = MinItem(scheduled).next

\* C9: when Schedule returns, s.when is the new first instant and the timer is
\* armed if that instant is earlier than s.when was, and s.when is what it was
\* otherwise.
ScheduleLowersWhen ==
    [][ScheduleReturns =>
          IF caller.it.next < when
          THEN when' = caller.it.next /\ timer'.active
          ELSE when' = when
      ]_vars

\* C10: once the dispatch of a task that was never released is over, with no
\* error from the executor or the schedule, the executor has been invoked in
\* increasing order of instant, the task's entry is back in the index at the
\* cron successor of the instant just fired, and the timer is armed (or its
\* tick is pending) so that the successor fires too.
PeriodicDispatch ==
    (/\ loopPc = "select"
     /\ calls # <<>>
     /\ errs = {}
     /\ released = {}
     /\ ~raced) =>
        LET last == calls[Len(calls)]
        IN  /\ \A i \in 1 .. Len(calls) - 1 : calls[i].at < calls[i + 1].at
            /\ \E e \in EntriesOf(last.id) :
                 e.next = CronNext(e.cron, last.at).t
            /\ timer.active \/ timerC = 1

\* The order (nextFireUnixSeconds, nonce, taskID) of the Scheduled Index.
LexBefore(a, b) ==
    \/ a.next < b.next
    \/ a.next = b.next /\ a.nonce < b.nonce
    \/ a.next = b.next /\ a.nonce = b.nonce /\ a.id < b.id

\* The dispatch goroutine takes an item out of the index in this step.
Pops == loopPc = "select" /\ loopPc' = "exec"

\* C11: the item the dispatch loop takes out of the index is before every
\* other Scheduled Entry in the order (next, nonce, taskID), so that of two
\* entries with the same second and nonce the one with the smaller taskID is
\* taken; and the executor is invoked for the item taken, at its instant.
PopsLeast ==
    [][/\ Pops => /\ loopIt' \in scheduled
                  /\ \A e \in scheduled \ {loopIt'} : LexBefore(loopIt', e)
       /\ calls' # calls =>
              calls' = Append(calls, [id |-> loopIt.id, at |-> loopIt.next])
      ]_vars

\* C11 happens: an item is on its way to the executor while an entry with
\* the same second and nonce and a larger taskID waits in the index.
PopsLeastWitness ==
    /\ loopPc = "exec"
    /\ \E e \in scheduled :
         e.next = loopIt.next /\ e.nonce = loopIt.nonce /\ e.id > loopIt.id

\* ---- Runs ------------------------------------------------------------------
\* s.running.AscendGreaterOrEqual(pivot, iter) with the iterator of s.runs:
\* the items from the pivot on go to the iterator in ascending order until it
\* returns false, which it does at the first item of another task; it
\* appends the run id of every item before that.
RECURSIVE Ascend(_, _)
Ascend(tree, taskID) ==
    IF tree = {}
    THEN <<>>
    ELSE LET least == CHOOSE r \in tree :
                          \A o \in tree : o = r \/ RunningLess(r, o)
         IN  IF least.taskID # taskID
             THEN <<>>
             ELSE <<least.runID>> \o Ascend(tree \ {least}, taskID)

\* Lines 274-280 with lines 57-69.  s.runs returns the iterator and the value
\* acc has at that moment, the empty slice it made; the iterator appends to
\* its own variable acc afterwards, the iteration starting at the pivot
\* runningItem{taskID: 0}.  Runs returns the slice it got from s.runs.
Runs(taskID, limit) ==
    LET acc == <<>>
        pivot == [taskID |-> 0, runID |-> 0]
        fromPivot == {r \in running : ~RunningLess(r, pivot)}
        accOfIterator == acc \o Ascend(fromPivot, taskID)
    IN  acc

\* The run ids in rs in ascending order.
RECURSIVE Ascending(_)
Ascending(rs) ==
    IF rs = {}
    THEN <<>>
    ELSE LET least == CHOOSE r \in rs : \A o \in rs : r <= o
         IN  <<least>> \o Ascending(rs \ {least})

\* The first n elements of seq, all of them when there are fewer.
Truncated(seq, n) == SubSeq(seq, 1, IF Len(seq) < n THEN Len(seq) ELSE n)

\* C12: whenever the mutex is free, Runs(taskID, limit) is the list of the
\* run ids of the Running Entries of taskID, in ascending order, cut to limit
\* entries, for every taskID and limit.
RunsListsTask ==
    mu = "free" =>
        \A id \in IDs, limit \in Limits :
            Runs(id, limit) =
                Truncated(Ascending({r.runID : r \in RunsOf(id)}), limit)

\* Schedule returns an error in this step: the call is counted and the
\* client is not inside the engine afterwards.
ScheduleFails == caller.op = "idle" /\ ops' = ops + 1 /\ lastCall'.op = "error"

\* C13: a Schedule that returns an error for a malformed cron expression
\* leaves the Scheduled Index, the Next-Fire Side Index, the Running Registry
\* and the armed wake time (s.when, the timer and its channel) as they were:
\* the task id is not registered.
InvalidCronChangesNothing ==
    [][ScheduleFails =>
          UNCHANGED <<scheduled, nextTime, running, when, timer, timerC>>]_vars

\* Schedule has returned an error while the index held an entry and a run
\* was registered.
InvalidCronWitness ==
    /\ lastCall.op = "error"
    /\ scheduled # {}
    /\ running # {}

\* C14: Schedule(id, ...) for an id without a Scheduled Entry, followed at
\* once by Release(id) with no dispatch in between, leaves no trace: when
\* Release returns there is no entry and no nextTime key for id, the entries
\* of the other ids are as they were, and the Running Registry is as it was.
ScheduleThenReleaseUndoes ==
    [][(/\ ReleaseReturns
        /\ lastCall.op = "Schedule"
        /\ lastCall.fresh
        /\ lastCall.it.id = caller.it.id) =>
           /\ EntriesIn(scheduled', caller.it.id) = {}
           /\ \A q \in nextTime' : q[1] # caller.it.id
           /\ scheduled' \ EntriesIn(scheduled', caller.it.id)
                  = scheduled \ EntriesIn(scheduled, caller.it.id)
           /\ running' = running]_vars

\* C15: a second Schedule with the arguments of the first, with no dispatch
\* in between, leaves the Scheduled Index with the same number of entries and
\* with the same entries for the id.
RescheduleInPlace ==
    [][(ScheduleReturns /\ SameArguments) =>
           /\ Cardinality(scheduled') = Cardinality(scheduled)
           /\ EntriesIn(scheduled', caller.it.id)
                  = EntriesIn(scheduled, caller.it.id)]_vars

\* The second of two calls of Schedule with the same arguments has returned,
\* and the index holds the item of another task too.
RescheduleInPlaceWitness ==
    /\ lastCall.op = "Schedule"
    /\ lastCall.again
    /\ lastCall.it \in scheduled
    /\ \E e \in scheduled : e.id # lastCall.it.id

\* The executor returns an error for the item the loop holds: line 181.
ExecutorFails == loopPc = "exec" /\ loopPc' = "select"

\* C16: when the executor returns an error for a fired task, the error handler
\* gets the task with run id 0 and the fired instant, no Running Entry is
\* made, and the task's entry is back in the Scheduled Index at the cron
\* successor of the fired instant (when the schedule has one).
SyncFailureReinserts ==
    [][ExecutorFails =>
          /\ [taskID |-> loopIt.id, runID |-> 0, at |-> loopIt.next] \in errs'
          /\ running' = running
          /\ (~CronNext(loopIt.cron, loopIt.next).err =>
                 \E e \in scheduled' :
                     /\ e.id = loopIt.id
                     /\ e.next = CronNext(loopIt.cron, loopIt.next).t)]_vars

\* The waiter w has seen its handle complete in this step: it is past
\* <-prom.Done() and the code after it.
HandleCompleted(w) == w \in waiters /\ w.pc = "await" /\ w \notin waiters'

\* C17: once the handle of a run completes, with or without an error, its
\* Running Entry is removed; with an error the error handler is called too.
CompletionRemovesRun ==
    [][\A w \in waiters :
          HandleCompleted(w) =>
              /\ [taskID |-> w.taskID, runID |-> w.runID] \notin running'
              /\ (PromState(w) = "err" =>
                     [taskID |-> w.taskID, runID |-> w.runID, at |-> w.at] \in errs')]_vars

\* The loop is past the cron advance of the item it holds, and the schedule
\* had no instant after the fired one: lines 146-153.
NoFutureFiring ==
    /\ loopPc = "advance"
    /\ loopPc' # "advance"
    /\ CronNext(loopIt.cron, loopIt.next).err

\* C18: when the cron schedule has no instant after the fired one, the loop
\* bumps the nonce, puts the entry back into the Scheduled Index and calls
\* the error handler, with a handle and with a nil handle alike, and keeps
\* running.  (Stated for an engine built with WithTime and for a reinsertion
\* that does not race with a client call.)
NoFutureFiringReinserts ==
    [][(NoFutureFiring /\ time = "stdTime" /\ mu = "free") =>
          /\ loopPc' # "panic"
          /\ \E e \in scheduled' :
                 e.id = loopIt.id /\ e.nonce = loopIt.nonce + 1
          /\ \E x \in errs' : x.taskID = loopIt.id /\ x.at = ZeroUnix]_vars

\* The dispatch loop reads or writes s.scheduled in this step: DeleteMin at
\* line 131, ReplaceOrInsert at line 153.
LoopTouchesIndex ==
    \/ loopPc = "select" /\ loopPc' \in {"exec", "reset"}
    \/ loopPc = "advance" /\ loopPc' \in {"select", "register"}

\* C19: the dispatch loop's extract-minimum and its reinsertion never run
\* while a Schedule or Release call is inside its critical section.
IndexUnderMutex ==
    [][LoopTouchesIndex => mu = "free"]_vars

\* The dispatch loop gets its unit of the limiter in this step.
Acquires == loopPc = "acquire" /\ loopPc' = "select"

====
